---- MODULE Spec2Model ----
(***************************************************************************)
(* zpass: a file-backed password manager.                                  *)
(*                                                                         *)
(* The module models                                                       *)
(*   - safe/collection.rs  List<T>                                         *)
(*   - safe/preference.rs  Preference, Preferences                         *)
(*   - safe/crypto.rs      Cipher, Secret, PasswordGenerator               *)
(*   - safe/vault.rs       Vault, Vaults, storage                          *)
(*   - cli/handler.rs      add_vault, add_password, get_password           *)
(*                                                                         *)
(* The specifications share the definitions:                               *)
(*   SpecPrefs a client of the library holding one Vault and calling       *)
(*             Preferences::add and Preferences::set_default on its        *)
(*             preferences;                                                *)
(*   SpecApi   the same client also calling Vault::get_password;           *)
(*   SpecDefault the client of SpecPrefs also asking for the password of   *)
(*             the default Preference of a domain;                         *)
(*   SpecCrypto calls of the functions of safe/crypto.rs;                  *)
(*   Spec      sequential runs of the command line program against the     *)
(*             storage directory;                                          *)
(*   SpecDet   such runs, with one get_password call remembered for        *)
(*             comparison with a later one;                                *)
(*   SpecIo    such runs on a file system whose calls can fail and that    *)
(*             holds files of other programs;                              *)
(*   SpecConc  two processes running the program at the same time.         *)
(*                                                                         *)
(* Option<T> is a sequence of length 0 (None) or 1 (Some).  Result<T, E>   *)
(* is a record [ok, err, val].  Strings that the program only compares are *)
(* TLA+ strings; strings whose characters the program inspects (vault      *)
(* names, the length parameter) are sequences of one-character strings.    *)
(***************************************************************************)
EXTENDS Integers, Sequences, FiniteSets, TLC

\* ------------------------------------------------------------------------
\* Bounds of the model
\* ------------------------------------------------------------------------

\* Number of distinct random secrets Secret::random_secret can draw.
NumSeeds == 2

Domains == {"example.com", "other.org"}

Usernames == {"alice", "bob"}

Lengths == {8, 16}

Versions == {0, 1}

\* The explicit length and version arguments of Vault::get_password.
LengthArgs == {12}

VersionArgs == {2}

Keys == {"K1", "K2"}

Seeds == 1..NumSeeds

\* ------------------------------------------------------------------------
\* Option and Result
\* ------------------------------------------------------------------------

None == <<>>

Some(x) == <<x>>

IsSome(o) == Len(o) = 1

unwrap_or(o, d) == IF IsSome(o) THEN o[1] ELSE d

Ok(v) == [ok |-> TRUE, err |-> "", val |-> v]

Err(e) == [ok |-> FALSE, err |-> e, val |-> <<>>]

\* Ok(()) of a function returning Result<(), E>
OkUnit == Ok(<<>>)

\* ------------------------------------------------------------------------
\* safe/collection.rs : List<T>
\* ------------------------------------------------------------------------

\* The closures the program passes to List are conjunctions of field
\* comparisons: |p| p.domain == d && p.username == u is the record
\* [domain |-> d, username |-> u], and f(x) is Matches(f, x).
Matches(f, x) == \A k \in DOMAIN f : x[k] = f[k]

\* Vec::iter().position(f): index of the first item satisfying f, 0 if none.
position(items, f) ==
    IF \E i \in 1..Len(items) : Matches(f, items[i])
    THEN CHOOSE i \in 1..Len(items) :
            Matches(f, items[i]) /\ \A j \in 1..(i - 1) : ~Matches(f, items[j])
    ELSE 0

List_new == <<>>

List_add(items, item) == Append(items, item)

List_has(items, f) == position(items, f) # 0

List_get(items, f) ==
    IF position(items, f) = 0 THEN None ELSE Some(items[position(items, f)])

\* The items of a List, the arguments List::apply calls its closure with.
Items(items) == {items[i] : i \in 1..Len(items)}

\* List::apply; the closure is a function from the item to the item as the
\* closure leaves it.
List_apply(items, f) == [i \in 1..Len(items) |-> f[items[i]]]

List_is_empty(items) == Len(items) = 0

\* ------------------------------------------------------------------------
\* safe/preference.rs : Preference, Preferences
\* ------------------------------------------------------------------------

Preference_new(domain, username, length) ==
    [domain |-> domain, username |-> username, length |-> length,
     version |-> 0, default |-> FALSE]

Preferences_new == List_new

\* |p| p.default == true && f(p)
AndDefault(f) == [k \in DOMAIN f \cup {"default"} |->
                    IF k = "default" THEN TRUE ELSE f[k]]

Preferences_has_default(items, f) == List_has(items, AndDefault(f))

Preferences_get_default(items, f) == List_get(items, AndDefault(f))

\* Preferences::add without the has_default test: every added Preference is
\* made default.
Preferences_add_always_default(items, preference) ==
    IF List_has(items, [domain |-> preference.domain,
                       username |-> preference.username])
    THEN [res |-> Err("PreferenceExists"), items |-> items]
    ELSE [res   |-> OkUnit,
          items |-> List_add(items, [preference EXCEPT !.default = TRUE])]

\* Preferences::add that overrides the default flag only to set it.
Preferences_add_keeps_flag(items, preference) ==
    IF List_has(items, [domain |-> preference.domain,
                       username |-> preference.username])
    THEN [res |-> Err("PreferenceExists"), items |-> items]
    ELSE LET default == preference.default
                        \/ ~Preferences_has_default(items, [domain |-> preference.domain])
         IN  [res   |-> OkUnit,
              items |-> List_add(items, [preference EXCEPT !.default = default])]

\* Preferences::add whose uniqueness test also compares the length.
Preferences_add_compares_length(items, preference) ==
    IF List_has(items, [domain |-> preference.domain,
                       username |-> preference.username,
                       length |-> preference.length])
    THEN [res |-> Err("PreferenceExists"), items |-> items]
    ELSE LET default == ~Preferences_has_default(items, [domain |-> preference.domain])
         IN  [res   |-> OkUnit,
              items |-> List_add(items, [preference EXCEPT !.default = default])]

\* Preferences::add without the uniqueness test.
Preferences_add_no_check(items, preference) ==
    LET default == ~Preferences_has_default(items, [domain |-> preference.domain])
    IN  [res   |-> OkUnit,
         items |-> List_add(items, [preference EXCEPT !.default = default])]

\* Preferences::add that stores the Preference with the flag it was given.
Preferences_add_takes_flag(items, preference) ==
    IF List_has(items, [domain |-> preference.domain,
                       username |-> preference.username])
    THEN [res |-> Err("PreferenceExists"), items |-> items]
    ELSE [res |-> OkUnit, items |-> List_add(items, preference)]

\* Preferences::add that, for a (domain, username) pair already stored,
\* gives the stored Preference the new length before it returns the error.
Preferences_add_updates_length(items, preference) ==
    IF List_has(items, [domain |-> preference.domain,
                       username |-> preference.username])
    THEN [res   |-> Err("PreferenceExists"),
          items |-> [i \in 1..Len(items) |->
                       IF (items[i].domain = preference.domain /\ items[i].username = preference.username)
                       THEN [items[i] EXCEPT !.length = preference.length]
                       ELSE items[i]]]
    ELSE LET default == ~Preferences_has_default(items, [domain |-> preference.domain])
         IN  [res   |-> OkUnit,
              items |-> List_add(items, [preference EXCEPT !.default = default])]

\* Returns the Result and the collection after the call.
Preferences_add(items, preference) ==
    IF List_has(items, [domain |-> preference.domain,
                       username |-> preference.username])
    THEN [res |-> Err("PreferenceExists"), items |-> items]
    ELSE LET default == ~Preferences_has_default(items, [domain |-> preference.domain])
         IN  [res   |-> OkUnit,
              items |-> List_add(items, [preference EXCEPT !.default = default])]

\* Preferences::set_default that sets the flag of the matched Preference and
\* does not clear the others.
Preferences_set_default_no_clear(items, domain, username) ==
    IF ~List_has(items, [domain |-> domain, username |-> username])
    THEN [res |-> Err("NoMatchingPreferenceFound"), items |-> items]
    ELSE [res   |-> OkUnit,
          items |-> List_apply(items, [p \in Items(items) |->
                        IF p.domain = domain /\ p.username = username
                        THEN [p EXCEPT !.default = TRUE]
                        ELSE p])]

\* Preferences::set_default whose precondition looks at the domain only.
Preferences_set_default_domain_only(items, domain, username) ==
    IF ~List_has(items, [domain |-> domain])
    THEN [res |-> Err("NoMatchingPreferenceFound"), items |-> items]
    ELSE [res   |-> OkUnit,
          items |-> List_apply(items, [p \in Items(items) |->
                        IF p.domain = domain
                        THEN [p EXCEPT !.default = (p.username = username)]
                        ELSE p])]

Preferences_set_default(items, domain, username) ==
    IF ~List_has(items, [domain |-> domain, username |-> username])
    THEN [res |-> Err("NoMatchingPreferenceFound"), items |-> items]
    ELSE [res   |-> OkUnit,
          items |-> List_apply(items, [p \in Items(items) |->
                        IF p.domain = domain
                        THEN [p EXCEPT !.default = (p.username = username)]
                        ELSE p])]

\* ------------------------------------------------------------------------
\* safe/constants.rs and the sizes fixed by the cryptographic primitives
\* ------------------------------------------------------------------------

SECRET_LENGTH == 256

IV_LENGTH_FOR_AES_256_IN_BYTES == 16

\* Key size of Aes256 in bytes.
AES_256_KEY_LENGTH == 32

\* Output size of Sha3_256 in bytes.
SHA3_256_LENGTH == 32

\* ------------------------------------------------------------------------
\* safe/crypto.rs : Cipher
\*
\* AES-256-CBC and SHA3-256 are library code.  Byte strings that only pass
\* through them are terms: a plaintext is [kind, len, seed, key], a digest
\* used as key material is [of, len], a ciphertext is [key, iv, plain].
\* ------------------------------------------------------------------------

\* Cipher::hash: the SHA3-256 digest of a string, as key material.
Cipher_hash(data) == [of |-> data, len |-> SHA3_256_LENGTH]

\* &iv[..IV_LENGTH_FOR_AES_256_IN_BYTES]
Truncate(digest, n) == [digest EXCEPT !.len = IF n < digest.len THEN n ELSE digest.len]

\* Cipher::new that hands the whole digest of the IV string to new_var.
Cipher_new_whole_digest(key, iv) ==
    LET k == Cipher_hash(key)
        v == Cipher_hash(iv)
    IN  IF k.len = AES_256_KEY_LENGTH /\ v.len = IV_LENGTH_FOR_AES_256_IN_BYTES
        THEN Ok([key |-> k, iv |-> v])
        ELSE Err("InvalidKeyIvLength")

\* Aes256Cbc::new_var checks the lengths of the key and of the IV.
Cipher_new(key, iv) ==
    LET k == Cipher_hash(key)
        v == Truncate(Cipher_hash(iv), IV_LENGTH_FOR_AES_256_IN_BYTES)
    IN  IF k.len = AES_256_KEY_LENGTH /\ v.len = IV_LENGTH_FOR_AES_256_IN_BYTES
        THEN Ok([key |-> k, iv |-> v])
        ELSE Err("InvalidKeyIvLength")

\* Cipher::encrypt (encrypt_vec never fails).
Cipher_encrypt(cipher, plaintext) ==
    [key |-> cipher.key, iv |-> cipher.iv, plain |-> plaintext]

\* Whether the last block, decrypted under a wrong key, ends in valid PKCS7
\* padding.  It is a fixed property of the pair (cipher, ciphertext); the
\* model lets it hold for the ciphertexts of even seed.
Pkcs7Accepts(cipher, ciphertext) == ciphertext.plain.seed % 2 = 0

\* Cipher::decrypt.  The right key and IV give the plaintext back.  The
\* right key with another IV garbles the first block only.  A wrong key
\* gives garbage, which is an error unless its padding happens to be valid.
Cipher_decrypt(cipher, ciphertext) ==
    IF cipher.key = ciphertext.key /\ cipher.iv = ciphertext.iv
    THEN Ok(ciphertext.plain)
    ELSE IF cipher.key = ciphertext.key
    THEN Ok([ciphertext.plain EXCEPT !.kind = "garbled"])
    ELSE IF Pkcs7Accepts(cipher, ciphertext)
    THEN Ok([ciphertext.plain EXCEPT !.kind = "garbage", !.key = cipher.key.of])
    ELSE Err("FailedToDecrypt")

\* ------------------------------------------------------------------------
\* safe/crypto.rs : Secret
\* ------------------------------------------------------------------------

\* Secret::random_secret: `length` random bytes; seed stands for the draw.
random_secret(length, seed) ==
    [kind |-> "random", len |-> length, seed |-> seed, key |-> ""]

\* A number standing for the content of a byte string.
Code(data) ==
    data.seed * 7
    + (CASE data.kind = "random"  -> 0
         [] data.kind = "garbled" -> 3
         [] OTHER                 -> 5)
    + (IF data.key = "K1" THEN 11 ELSE IF data.key = "K2" THEN 13 ELSE 0)
    + data.len

\* Secret::hash: the SHA3-256 digest, a sequence of 32 bytes.
Secret_hash(data) ==
    [i \in 1..SHA3_256_LENGTH |-> (Code(data) * 31 + i * i * 17 + i * 5) % 256]

\* Secret::to_ascii_range that adds before it reduces: (b + 33) % 92.
to_ascii_range_adds_first(v) == [i \in 1..Len(v) |-> ((v[i] + 33) % 256) % 92]

\* Secret::to_ascii_range, in u8 arithmetic.
to_ascii_range(v) == [i \in 1..Len(v) |-> ((v[i] % 92) + 33) % 256]

\* Secret::new
Secret_new(key, iv, length, seed) ==
    LET secret == random_secret(length, seed)
        cipher == Cipher_new(key, iv)
    IN  IF ~cipher.ok THEN Err(cipher.err)
        ELSE Ok([encrypted_secret |-> Cipher_encrypt(cipher.val, secret),
                 iv |-> iv])

\* <Secret as PasswordGenerator>::get that cuts the password to the length
\* of the parameters.
Secret_get_cuts_to_length(self, key, params) ==
    LET cipher == Cipher_new(key, self.iv)
    IN  IF ~cipher.ok THEN Err(cipher.err)
        ELSE LET secret == Cipher_decrypt(cipher.val, self.encrypted_secret)
             IN  IF ~secret.ok THEN Err(secret.err)
                 ELSE Ok(SubSeq(to_ascii_range(Secret_hash(secret.val)), 1,
                                IF params.length < SHA3_256_LENGTH
                                THEN params.length ELSE SHA3_256_LENGTH))

\* <Secret as PasswordGenerator>::get
Secret_get(self, key, params) ==
    LET cipher == Cipher_new(key, self.iv)
    IN  IF ~cipher.ok THEN Err(cipher.err)
        ELSE LET secret == Cipher_decrypt(cipher.val, self.encrypted_secret)
             IN  IF ~secret.ok THEN Err(secret.err)
                 ELSE Ok(to_ascii_range(Secret_hash(secret.val)))

\* ------------------------------------------------------------------------
\* safe/vault.rs : Vault
\* ------------------------------------------------------------------------

Vault_new(name, secret, default) ==
    [name |-> name, secret |-> secret, preferences |-> Preferences_new,
     default |-> default]

\* Vault::get_password that takes, without a username, the first Preference
\* of the domain instead of the default one.
Vault_get_password_first_of_domain(self, domain, key, username, length, version) ==
    LET preference ==
            IF IsSome(username)
            THEN List_get(self.preferences,
                     [domain |-> domain, username |-> username[1]])
            ELSE List_get(self.preferences, [domain |-> domain])
    IN  IF ~IsSome(preference)
        THEN [res |-> Err("NoMatchingPreference"), param |-> None]
        ELSE LET param == [domain   |-> domain,
                           username |-> unwrap_or(username, preference[1].username),
                           length   |-> unwrap_or(length, preference[1].length),
                           version  |-> unwrap_or(version, preference[1].version)]
             IN  [res |-> Secret_get(self.secret, key, param),
                  param |-> Some(param)]

\* Vault::get_password.  Besides the Result, the record tells the
\* PasswordParam handed to the generator (None when it was not called).
Vault_get_password(self, domain, key, username, length, version) ==
    LET preference ==
            IF IsSome(username)
            THEN List_get(self.preferences,
                     [domain |-> domain, username |-> username[1]])
            ELSE Preferences_get_default(self.preferences, [domain |-> domain])
    IN  IF ~IsSome(preference)
        THEN [res |-> Err("NoMatchingPreference"), param |-> None]
        ELSE LET param == [domain   |-> domain,
                           username |-> unwrap_or(username, preference[1].username),
                           length   |-> unwrap_or(length, preference[1].length),
                           version  |-> unwrap_or(version, preference[1].version)]
             IN  [res |-> Secret_get(self.secret, key, param),
                  param |-> Some(param)]

\* ------------------------------------------------------------------------
\* safe/vault.rs : serialization and storage
\*
\* The storage root is a directory; `files` maps the name of each file in
\* it to its content.  A file content is a JSON document, a record whose
\* fields are the members of the JSON object.
\* ------------------------------------------------------------------------

ROOT_PATH == "./.zpass"

\* Vault::serialize (serde_json).  Preferences flattens its List, whose one
\* member is `items`.
Vault_serialize(self) ==
    Ok([name        |-> self.name,
        secret      |-> [encrypted_secret |-> self.secret.encrypted_secret,
                         iv               |-> self.secret.iv],
        preferences |-> [items |-> self.preferences],
        default     |-> self.default])

\* Vault::deserialize that does not read the member `default` (as under
\* #[serde(skip)]) and leaves the flag at its default value.
Vault_deserialize_skips_default(serialized) ==
    IF DOMAIN serialized = {"name", "secret", "preferences", "default"}
       /\ DOMAIN serialized.secret = {"encrypted_secret", "iv"}
       /\ DOMAIN serialized.preferences = {"items"}
    THEN Ok([name        |-> serialized.name,
             secret      |-> [encrypted_secret |-> serialized.secret.encrypted_secret,
                              iv               |-> serialized.secret.iv],
             preferences |-> serialized.preferences.items,
             default     |-> FALSE])
    ELSE Err("SerializationError")

\* Vault::deserialize: an error unless the document has the members of a
\* Vault.
Vault_deserialize(serialized) ==
    IF DOMAIN serialized = {"name", "secret", "preferences", "default"}
       /\ DOMAIN serialized.secret = {"encrypted_secret", "iv"}
       /\ DOMAIN serialized.preferences = {"items"}
    THEN Ok([name        |-> serialized.name,
             secret      |-> [encrypted_secret |-> serialized.secret.encrypted_secret,
                              iv               |-> serialized.secret.iv],
             preferences |-> serialized.preferences.items,
             default     |-> serialized.default])
    ELSE Err("SerializationError")

\* Path::file_stem of a file name: the part before the last '.', or the
\* whole name when it has no '.', only a leading one, or is "..".
file_stem(file) ==
    LET dots == {i \in 1..Len(file) : file[i] = "."}
        k    == CHOOSE i \in dots : \A j \in dots : j <= i
    IN  IF dots = {} \/ file = <<".", ".">> THEN file
        ELSE IF k = 1 THEN file
        ELSE SubSeq(file, 1, k - 1)

\* Path::with_extension: the extension replaces what follows the stem.
with_extension(file, extension) == file_stem(file) \o <<".">> \o extension

\* Vault::path: ROOT_PATH joined with the name, with the extension "json".
\* The names of the model have no path separator, so the file is in the
\* root and the path is told by its file name.
Vault_path(self) == with_extension(self.name, <<"j", "s", "o", "n">>)

\* Files that are not the JSON document of a Vault have a content `raw`:
\* the empty file File::create leaves before the content is written, a JSON
\* document without the members of a Vault, and bytes that are not UTF-8.
EmptyFile == [raw |-> ""]

NotAVault == [raw |-> "{}"]

NotUtf8 == [raw |-> "0xFF"]

\* What the file system does with the calls of one Vault::store: all
\* succeed; fs::create_dir fails; fs::write fails to open the file; fs::write
\* fails after File::create has truncated the file.
IoOutcomes == {"ok", "create_dir", "open", "write"}

\* The storage with `content` in the file `file`.
write_file(st, file, content) ==
    [root  |-> TRUE,
     files |-> [f \in DOMAIN st.files \cup {file} |->
                  IF f = file THEN content ELSE st.files[f]]]

\* Vault::store on the storage `st` = [root, files]: creates the root when it
\* is missing and writes the file.  Returns the Result and the storage.
Vault_store(self, st, io) ==
    LET serialized == Vault_serialize(self)
    IN  IF ~st.root /\ io = "create_dir"
        THEN [res |-> Err("IOError"), st |-> st]
        ELSE IF ~serialized.ok
        THEN [res |-> Err(serialized.err), st |-> [st EXCEPT !.root = TRUE]]
        ELSE IF io = "open"
        THEN [res |-> Err("IOError"), st |-> [st EXCEPT !.root = TRUE]]
        ELSE IF io = "write"
        THEN [res |-> Err("IOError"),
              st  |-> write_file(st, Vault_path(self), EmptyFile)]
        ELSE [res |-> OkUnit,
              st  |-> write_file(st, Vault_path(self), serialized.val)]

\* get_dir_contents: the contents of the files of the root, in the order
\* fs::read_dir yields them; fs::read_to_string fails on a file that is not
\* UTF-8.
get_dir_contents(st, order) ==
    IF \E i \in 1..Len(order) : st.files[order[i]] = NotUtf8
    THEN Err("IOError")
    ELSE Ok([i \in 1..Len(order) |-> st.files[order[i]]])

\* The orders in which fs::read_dir can yield the files: any.
ReadDirOrders(st) ==
    {o \in [1..Cardinality(DOMAIN st.files) -> DOMAIN st.files] :
        \A i, j \in DOMAIN o : i # j => o[i] # o[j]}

\* What a function that panics "returns": no value, the process unwinds.
Panic == [ok |-> FALSE, err |-> "panic", val |-> <<>>]

\* The index of the first content that does not deserialize, 0 if none.
first_bad(contents) ==
    IF \E i \in 1..Len(contents) : ~Vault_deserialize(contents[i]).ok
    THEN CHOOSE i \in 1..Len(contents) :
            /\ ~Vault_deserialize(contents[i]).ok
            /\ \A j \in 1..(i - 1) : Vault_deserialize(contents[j]).ok
    ELSE 0

\* Vaults::new: the empty collection when the root does not exist, else
\* every file deserialized.  An error of get_dir_contents is returned;
\* unwrap panics on the first content that does not deserialize, and `val`
\* then holds the vaults deserialized before it, which the unwinding drops.
Vaults_new(st, order) ==
    IF ~st.root THEN Ok(List_new)
    ELSE LET contents == get_dir_contents(st, order)
         IN  IF ~contents.ok THEN Err(contents.err)
             ELSE IF first_bad(contents.val) # 0
             THEN [Panic EXCEPT !.val =
                      [i \in 1..(first_bad(contents.val) - 1) |->
                          Vault_deserialize(contents.val[i]).val]]
             ELSE Ok([i \in 1..Len(contents.val) |->
                        Vault_deserialize(contents.val[i]).val])

\* Vaults::add that marks every new vault as default.
Vaults_add_always_default(items, name, secret) ==
    IF List_has(items, [name |-> name])
    THEN [res |-> Err("VaultAlreadyExists"), items |-> items]
    ELSE [res   |-> OkUnit,
          items |-> List_add(items, Vault_new(name, secret, TRUE))]

\* Vaults::add without the uniqueness test.
Vaults_add_no_check(items, name, secret) ==
    LET default == List_is_empty(items)
    IN  [res   |-> OkUnit,
         items |-> List_add(items, Vault_new(name, secret, default))]

\* Vaults::add that gives the Vault of that name the new secret instead of
\* rejecting the name.
Vaults_add_rekeys(items, name, secret) ==
    IF List_has(items, [name |-> name])
    THEN [res   |-> OkUnit,
          items |-> [i \in 1..Len(items) |->
                        IF items[i].name = name
                        THEN [items[i] EXCEPT !.secret = secret]
                        ELSE items[i]]]
    ELSE LET default == List_is_empty(items)
         IN  [res   |-> OkUnit,
              items |-> List_add(items, Vault_new(name, secret, default))]

\* Vaults::add.  Returns the Result and the collection after the call.
Vaults_add(items, name, secret) ==
    IF List_has(items, [name |-> name])
    THEN [res |-> Err("VaultAlreadyExists"), items |-> items]
    ELSE LET default == List_is_empty(items)
         IN  [res   |-> OkUnit,
              items |-> List_add(items, Vault_new(name, secret, default))]

\* Vaults::get_default_mut that takes the first vault, default or not.
Vaults_get_default_mut_first(items) == IF items = <<>> THEN 0 ELSE 1

\* Vaults::get_default_mut: the index of the first default vault, 0 if none.
Vaults_get_default_mut(items) == position(items, [default |-> TRUE])

\* ------------------------------------------------------------------------
\* State
\* ------------------------------------------------------------------------

VARIABLES
    calc,       \* SpecCrypto: the last call of a function of crypto.rs, its
                \*             arguments and its result
    vault,      \* SpecApi: the Vault the client holds, None before Vault::new
    last,       \* SpecApi: the last call, its arguments, its result and the
                \*          preferences before it
    storage,    \* Spec: the storage root, [root, files]
    pc,         \* Spec: per process, "idle" (not running) or "drop" (the
                \*       handler returned and its Vaults is being dropped)
    mem,        \* Spec: per process, the Vaults collection in memory
    out,        \* Spec: per process, the last handler run: arguments, the
                \*       collection loaded and whether a file did not
                \*       deserialize, the collection held when the
                \*       handler returned, the result, the vaults
                \*       Vault::store has written since and the Result of
                \*       the last Vault::store
    seen,       \* Spec: an earlier Vault::get_password call, or None
    first,      \* Spec: the Vault the first successful Vaults::add created
    runs        \* Spec: the number of runs started

apiVars == <<calc, vault, last>>

cliVars == <<storage, pc, mem, out, seen, first, runs>>

vars == <<calc, vault, last, storage, pc, mem, out, seen, first, runs>>

Opt(S) == {None} \cup {Some(x) : x \in S}

\* The vault names a client or the command line can give.
ApiName == <<"w">>

NoCall ==
    [op |-> "", preference |-> None, domain |-> "", key |-> "",
     username |-> None, length |-> None, version |-> None,
     res |-> OkUnit, param |-> None, before |-> <<>>]

InitApi ==
    /\ calc = [op |-> ""]
    /\ vault = None
    /\ last = NoCall

\* The processes that run the program.
Procs == {"p1", "p2"}

\* Largest number of runs of the program.
MaxRuns == 4

\* Vault names given on the command line: file names without a path
\* separator; "w" and "w.x" have the same stem.
Names == {<<"w">>, <<"w", ".", "x">>, <<"h">>}

\* Values of the --length parameter.
LengthStrings == {<<"8">>, <<"1", "6">>, <<"x">>}

NoParams == [domain |-> None, username |-> None, length |-> None]

\* The parameters of add password: all three, or none.
AddPasswordParams ==
    [domain : {Some("example.com")}, username : {Some(u) : u \in Usernames},
     length : {Some(l) : l \in LengthStrings}] \cup {NoParams}

\* The parameters of get password: the domain, with or without a username
\* and a length, or none.
GetPasswordParams ==
    [domain : {Some("example.com")}, username : Opt(Usernames),
     length : Opt({<<"8">>, <<"x">>})] \cup {NoParams}

NoRun ==
    [op |-> "", run |-> 0, res |-> OkUnit, name |-> None, key |-> "",
     domain |-> None, username |-> None, length |-> None,
     bad |-> FALSE, loaded |-> <<>>, held |-> <<>>, written |-> <<>>,
     store |-> OkUnit, call |-> None]

InitCli ==
    /\ storage = [root |-> FALSE, files |-> <<>>]
    /\ pc = [p \in Procs |-> "idle"]
    /\ mem = [p \in Procs |-> <<>>]
    /\ out = [p \in Procs |-> NoRun]
    /\ seen = None
    /\ first = None
    /\ runs = 0

\* ------------------------------------------------------------------------
\* SpecApi: a client of the library
\* ------------------------------------------------------------------------

\* Secret::new and Vault::new, as in tests::vault_serialization.
ApiNewVault(key, seed) ==
    /\ vault = None
    /\ LET secret == Secret_new(key, ApiName, SECRET_LENGTH, seed)
       IN  /\ secret.ok
           /\ vault' = Some(Vault_new(ApiName, secret.val, TRUE))
    /\ last' = [NoCall EXCEPT !.op = "new", !.key = key]
    /\ UNCHANGED calc
    /\ UNCHANGED cliVars

\* vault.preferences.add(preference)
ApiAdd(preference) ==
    /\ IsSome(vault)
    /\ LET before == vault[1].preferences
           r      == Preferences_add(before, preference)
       IN  /\ vault' = Some([vault[1] EXCEPT !.preferences = r.items])
           /\ last' = [NoCall EXCEPT !.op = "add",
                                     !.preference = Some(preference),
                                     !.domain = preference.domain,
                                     !.username = Some(preference.username),
                                     !.res = r.res,
                                     !.before = before]
    /\ UNCHANGED calc
    /\ UNCHANGED cliVars

\* vault.preferences.set_default(domain, username)
ApiSetDefault(domain, username) ==
    /\ IsSome(vault)
    /\ LET before == vault[1].preferences
           r      == Preferences_set_default(before, domain, username)
       IN  /\ vault' = Some([vault[1] EXCEPT !.preferences = r.items])
           /\ last' = [NoCall EXCEPT !.op = "set_default",
                                     !.domain = domain,
                                     !.username = Some(username),
                                     !.res = r.res,
                                     !.before = before]
    /\ UNCHANGED calc
    /\ UNCHANGED cliVars

\* vault.get_password(domain, key, username, length, version); &self
ApiGetPassword(domain, key, username, length, version) ==
    /\ IsSome(vault)
    /\ LET r == Vault_get_password(vault[1], domain, key, username, length, version)
       IN  last' = [NoCall EXCEPT !.op = "get_password",
                                  !.domain = domain, !.key = key,
                                  !.username = username, !.length = length,
                                  !.version = version,
                                  !.res = r.res, !.param = r.param,
                                  !.before = vault[1].preferences]
    /\ UNCHANGED <<calc, vault>>
    /\ UNCHANGED cliVars

\* The Preferences a client adds: three of the four (domain, username)
\* pairs, so that one pair is never stored; two (length, version) shapes;
\* either value of the default flag.
AddInputs ==
    {p \in [domain : Domains, username : Usernames, length : Lengths,
            version : Versions, default : BOOLEAN] :
        /\ ~(p.domain = "other.org" /\ p.username = "bob")
        /\ p.version = (IF p.length = 16 THEN 1 ELSE 0)}

\* The calls that change the Preferences.
NextPrefs ==
    \/ \E seed \in Seeds : ApiNewVault("K1", seed)
    \/ \E preference \in AddInputs : ApiAdd(preference)
    \/ \E domain \in Domains, username \in Usernames :
          ApiSetDefault(domain, username)

\* The calls that change the Preferences, and get_password called with the
\* domain only.
NextDefault ==
    \/ NextPrefs
    \/ \E domain \in Domains : ApiGetPassword(domain, "K1", None, None, None)

NextApi ==
    \/ NextPrefs
    \/ \E domain \in Domains, key \in Keys, username \in Opt(Usernames),
          length \in Opt(LengthArgs), version \in Opt(VersionArgs) :
          ApiGetPassword(domain, key, username, length, version)

\* ------------------------------------------------------------------------
\* SpecCrypto: calls of the functions of safe/crypto.rs
\* ------------------------------------------------------------------------

\* The values of a u8.
Bytes == 0..255

\* The IV strings.
Ivs == {"IV1", "IV2"}

\* The plaintexts: empty, shorter than a block, several blocks.
Plaintexts == {random_secret(n, seed) : n \in {0, 6, SECRET_LENGTH}, seed \in Seeds}

\* tests::inverse: a Cipher encrypts, a second Cipher decrypts.
Inverse(key, iv, plaintext, key2, iv2) ==
    /\ LET c1 == Cipher_new(key, iv)
           c2 == Cipher_new(key2, iv2)
           cipher == IF c1.ok THEN Ok(Cipher_encrypt(c1.val, plaintext))
                     ELSE Err(c1.err)
           message == IF ~cipher.ok THEN Err(cipher.err)
                      ELSE IF ~c2.ok THEN Err(c2.err)
                      ELSE Cipher_decrypt(c2.val, cipher.val)
       IN  calc' = [op |-> "inverse", key |-> key, iv |-> iv,
                    plaintext |-> plaintext, key2 |-> key2, iv2 |-> iv2,
                    cipher |-> cipher, message |-> message]
    /\ UNCHANGED <<vault, last>>
    /\ UNCHANGED cliVars

\* Secret::to_ascii_range of one byte.
ToAsciiRange(b) ==
    /\ calc' = [op |-> "to_ascii_range", v |-> <<b>>,
                res |-> to_ascii_range(<<b>>)]
    /\ UNCHANGED <<vault, last>>
    /\ UNCHANGED cliVars

\* Secret::new(key, iv, SECRET_LENGTH) followed by get(key2, params).
NewAndGet(key, iv, seed, key2, length) ==
    /\ LET secret == Secret_new(key, iv, SECRET_LENGTH, seed)
           res == IF ~secret.ok THEN Err(secret.err)
                  ELSE Secret_get(secret.val, key2,
                                  [domain |-> "example.com", username |-> "alice",
                                   length |-> length, version |-> 0])
       IN  calc' = [op |-> "get", key |-> key, iv |-> iv, seed |-> seed,
                    key2 |-> key2, length |-> length,
                    digest |-> IF res.ok
                               THEN Secret_hash(Cipher_decrypt(
                                        Cipher_new(key2, iv).val,
                                        secret.val.encrypted_secret).val)
                               ELSE <<>>,
                    res |-> res]
    /\ UNCHANGED <<vault, last>>
    /\ UNCHANGED cliVars

NextCrypto ==
    \/ \E key \in Keys, iv \in Ivs, plaintext \in Plaintexts,
          key2 \in Keys, iv2 \in Ivs :
          Inverse(key, iv, plaintext, key2, iv2)
    \/ \E b \in Bytes : ToAsciiRange(b)
    \/ \E key \in Keys, iv \in Ivs, seed \in Seeds, key2 \in Keys,
          length \in Lengths :
          NewAndGet(key, iv, seed, key2, length)

\* ------------------------------------------------------------------------
\* Spec: runs of the command line program (cli/handler.rs)
\* ------------------------------------------------------------------------

DigitValue(c) ==
    CASE c = "0" -> 0 [] c = "1" -> 1 [] c = "2" -> 2 [] c = "3" -> 3
      [] c = "4" -> 4 [] c = "5" -> 5 [] c = "6" -> 6 [] c = "7" -> 7
      [] c = "8" -> 8 [] c = "9" -> 9 [] OTHER -> -1

RECURSIVE DecimalValue(_)
DecimalValue(str) ==
    IF str = <<>> THEN 0
    ELSE DecimalValue(SubSeq(str, 1, Len(str) - 1)) * 10 + DigitValue(str[Len(str)])

\* str::parse::<usize>: the number a non-empty string of digits denotes.
parse_usize(str) ==
    IF str # <<>> /\ \A i \in 1..Len(str) : DigitValue(str[i]) >= 0
    THEN Ok(DecimalValue(str))
    ELSE Err("ConversionError")

\* Whether a file of the storage root does not deserialize as a Vault.
HasBadFile(st) ==
    \E f \in DOMAIN st.files : ~Vault_deserialize(st.files[f]).ok

\* A handler whose vaults are forgotten, not dropped, when it returns an
\* error.
Return_forgets_on_error(p, op, items, record) ==
    /\ mem' = [mem EXCEPT ![p] = IF record.res.ok THEN items ELSE <<>>]
    /\ pc' = [pc EXCEPT ![p] = IF items = <<>> \/ ~record.res.ok
                               THEN "idle" ELSE "drop"]
    /\ out' = [out EXCEPT ![p] = [record EXCEPT !.op = op, !.run = runs + 1,
                                                !.bad = HasBadFile(storage),
                                                !.held = items]]
    /\ runs' = runs + 1

\* The handler returned: its Vaults goes out of scope and the vaults are
\* dropped one by one; a process with nothing to drop has exited.
Return(p, op, items, record) ==
    /\ mem' = [mem EXCEPT ![p] = items]
    /\ pc' = [pc EXCEPT ![p] = IF items = <<>> THEN "idle" ELSE "drop"]
    /\ out' = [out EXCEPT ![p] = [record EXCEPT !.op = op, !.run = runs + 1,
                                                !.bad = HasBadFile(storage),
                                                !.held = items]]
    /\ runs' = runs + 1

\* handler::add_vault, up to its return.
CliAddVault(p, order, key, name, seed) ==
    /\ pc[p] = "idle" /\ runs < MaxRuns
    /\ LET vs == Vaults_new(storage, order)
           secret == Secret_new(key, name[1], SECRET_LENGTH, seed)
           r == IF ~vs.ok
                THEN [res |-> Err(vs.err), items |-> vs.val]
                ELSE IF ~IsSome(name)
                THEN [res |-> Err("MissingParam"), items |-> vs.val]
                ELSE IF ~secret.ok
                THEN [res |-> Err(secret.err), items |-> vs.val]
                ELSE Vaults_add(vs.val, name[1], secret.val)
       IN  /\ Return(p, "add_vault", r.items,
                     [NoRun EXCEPT !.res = r.res, !.name = name, !.key = key,
                                   !.loaded = vs.val])
           /\ first' = IF r.res.ok /\ first = None
                       THEN Some(r.items[Len(r.items)])
                       ELSE first
    /\ UNCHANGED <<storage, seen>>
    /\ UNCHANGED apiVars

\* handler::add_password, up to its return.
CliAddPassword(p, order, params) ==
    /\ pc[p] = "idle" /\ runs < MaxRuns
    /\ LET vs == Vaults_new(storage, order)
           m  == vs.val
           v  == Vaults_get_default_mut(m)
           length == parse_usize(params.length[1])
           added  == Preferences_add(m[v].preferences,
                        Preference_new(params.domain[1], params.username[1],
                                       length.val))
           r == IF ~vs.ok
                THEN [res |-> Err(vs.err), items |-> m]
                ELSE IF v = 0
                THEN [res |-> Err("MissingVault"), items |-> m]
                ELSE IF ~IsSome(params.domain) \/ ~IsSome(params.username)
                        \/ ~IsSome(params.length)
                THEN [res |-> Err("MissingParam"), items |-> m]
                ELSE IF ~length.ok
                THEN [res |-> Err(length.err), items |-> m]
                ELSE [res |-> added.res,
                      items |-> [m EXCEPT ![v].preferences = added.items]]
       IN  /\ Return(p, "add_password", r.items,
                     [NoRun EXCEPT !.res = r.res, !.domain = params.domain,
                                   !.username = params.username,
                                   !.length = params.length, !.loaded = m])
    /\ UNCHANGED <<storage, seen, first>>
    /\ UNCHANGED apiVars

\* handler::get_password, up to its return.  The call of Vault::get_password
\* is recorded, and `remember` tells whether it is kept for later comparison.
\* The clipboard takes the password.
CliGetPassword(p, order, key, params, remember) ==
    /\ pc[p] = "idle" /\ runs < MaxRuns
    /\ LET vs == Vaults_new(storage, order)
           m  == vs.val
           v  == Vaults_get_default_mut(m)
           length == parse_usize(params.length[1])
           got == Vault_get_password(m[v], params.domain[1], key,
                     params.username,
                     IF IsSome(params.length) THEN Some(length.val) ELSE None,
                     None)
           called == vs.ok /\ v # 0 /\ IsSome(params.domain)
                     /\ (IsSome(params.length) => length.ok)
           res == IF ~vs.ok THEN Err(vs.err)
                  ELSE IF v = 0 THEN Err("MissingVault")
                  ELSE IF ~IsSome(params.domain) THEN Err("MissingParam")
                  ELSE IF IsSome(params.length) /\ ~length.ok THEN Err(length.err)
                  ELSE IF ~got.res.ok THEN Err(got.res.err)
                  ELSE OkUnit
           call == IF called
                   THEN Some([run |-> runs + 1, name |-> m[v].name,
                              secret |-> m[v].secret,
                              preferences |-> m[v].preferences,
                              key |-> key, domain |-> params.domain[1],
                              username |-> params.username,
                              length |-> params.length,
                              res |-> got.res, param |-> got.param])
                   ELSE None
       IN  /\ Return(p, "get_password", m,
                     [NoRun EXCEPT !.res = res, !.key = key,
                                   !.domain = params.domain,
                                   !.username = params.username,
                                   !.length = params.length, !.loaded = m,
                                   !.call = call])
           /\ seen' = IF remember /\ called THEN call ELSE seen
    /\ UNCHANGED <<storage, first>>
    /\ UNCHANGED apiVars

\* <Vault as Drop>::drop of the next vault of the collection: Vault::store.
Drop(p) ==
    /\ pc[p] = "drop"
    /\ LET stored == Vault_store(Head(mem[p]), storage, "ok")
       IN  /\ stored.res.ok
           /\ storage' = stored.st
    /\ mem' = [mem EXCEPT ![p] = Tail(mem[p])]
    /\ pc' = [pc EXCEPT ![p] = IF Tail(mem[p]) = <<>> THEN "idle" ELSE "drop"]
    /\ out' = [out EXCEPT ![p].written = Append(@, Head(mem[p]))]
    /\ UNCHANGED <<seen, first, runs>>
    /\ UNCHANGED apiVars

\* One step of process p, with the vault names, the parameters of
\* add password and of get password, and the choices of remembering a call
\* drawn from the given sets.
Step(p, names, addParams, getParams, remembers) ==
    \/ \E order \in ReadDirOrders(storage), name \in names, seed \in Seeds :
          CliAddVault(p, order, "K1", name, seed)
    \/ \E order \in ReadDirOrders(storage), params \in addParams :
          CliAddPassword(p, order, params)
    \/ \E order \in ReadDirOrders(storage), key \in Keys,
          params \in getParams, remember \in remembers :
          CliGetPassword(p, order, key, params, remember)
    \/ Drop(p)

\* Sequential runs: one process at a time.
Next == Step("p1", Opt(Names), AddPasswordParams, GetPasswordParams, {FALSE})

\* Sequential runs in which a get password call can be remembered and
\* compared with a later one; two vault names, all parameters given.
DetAddParams ==
    [domain : {Some("example.com")}, username : {Some(u) : u \in Usernames},
     length : {Some(<<"1", "6">>)}]

DetGetParams ==
    [domain : {Some("example.com")}, username : Opt({"alice"}),
     length : Opt({<<"8">>})]

NextDet ==
    Step("p1", {Some(<<"w">>), Some(<<"h">>)}, DetAddParams, DetGetParams,
         BOOLEAN)

\* ------------------------------------------------------------------------
\* SpecIo: sequential runs on a file system that can fail and that other
\* programs write to
\* ------------------------------------------------------------------------

\* <Vault as Drop>::drop when Vault::store returns an error: unwrap panics.
\* The vaults left are dropped by the unwinding, unless the build aborts on
\* panic; a panic while the process is already unwinding aborts it.
DropFails(p, io) ==
    /\ pc[p] = "drop"
    /\ LET stored == Vault_store(Head(mem[p]), storage, io)
       IN  /\ ~stored.res.ok
           /\ storage' = stored.st
           /\ out' = [out EXCEPT ![p].res = Panic, ![p].store = stored.res]
    /\ \E rest \in (IF out[p].res = Panic THEN {<<>>}
                                         ELSE {Tail(mem[p]), <<>>}) :
          /\ mem' = [mem EXCEPT ![p] = rest]
          /\ pc' = [pc EXCEPT ![p] = IF rest = <<>> THEN "idle" ELSE "drop"]
    /\ UNCHANGED <<seen, first, runs>>
    /\ UNCHANGED apiVars

\* A file of another program in the storage root.
ForeignFile == <<"n", "o", "t", "e">>

\* Another program writes its file into the storage root.
EnvWrite(file, content) ==
    /\ file \notin DOMAIN storage.files
    /\ storage' = write_file(storage, file, content)
    /\ UNCHANGED <<pc, mem, out, seen, first, runs>>
    /\ UNCHANGED apiVars

NextIo ==
    \/ \E order \in ReadDirOrders(storage), name \in {<<"w">>, <<"h">>} :
          CliAddVault("p1", order, "K1", Some(name), 1)
    \/ \E order \in ReadDirOrders(storage), params \in DetAddParams :
          CliAddPassword("p1", order, params)
    \/ \E order \in ReadDirOrders(storage) :
          CliGetPassword("p1", order, "K1",
                         [NoParams EXCEPT !.domain = Some("example.com")], FALSE)
    \/ Drop("p1")
    \/ \E io \in IoOutcomes \ {"ok"} : DropFails("p1", io)
    \/ \E content \in {NotAVault, NotUtf8} : EnvWrite(ForeignFile, content)

\* ------------------------------------------------------------------------
\* SpecConc: two processes running the program at the same time.  fs::write
\* is File::create, which truncates the file, followed by write_all; another
\* process can read the file in between.
\* ------------------------------------------------------------------------

\* Vault::store up to File::create: the root exists and the file is empty.
DropCreate(p) ==
    /\ pc[p] = "drop"
    /\ storage' = Vault_store(Head(mem[p]), storage, "write").st
    /\ pc' = [pc EXCEPT ![p] = "write"]
    /\ UNCHANGED <<mem, out, seen, first, runs>>
    /\ UNCHANGED apiVars

\* write_all and the end of <Vault as Drop>::drop.
DropWrite(p) ==
    /\ pc[p] = "write"
    /\ storage' = Vault_store(Head(mem[p]), storage, "ok").st
    /\ mem' = [mem EXCEPT ![p] = Tail(mem[p])]
    /\ pc' = [pc EXCEPT ![p] = IF Tail(mem[p]) = <<>> THEN "idle" ELSE "drop"]
    /\ out' = [out EXCEPT ![p].written = Append(@, Head(mem[p]))]
    /\ UNCHANGED <<seen, first, runs>>
    /\ UNCHANGED apiVars

NextConc ==
    \E p \in Procs :
        \/ \E order \in ReadDirOrders(storage), seed \in Seeds :
              CliAddVault(p, order, "K1", Some(<<"w">>), seed)
        \/ \E order \in ReadDirOrders(storage), params \in DetAddParams :
              CliAddPassword(p, order, params)
        \/ DropCreate(p)
        \/ DropWrite(p)

Init == InitApi /\ InitCli

SpecIo == Init /\ [][NextIo]_vars

SpecConc == Init /\ [][NextConc]_vars

SpecPrefs == Init /\ [][NextPrefs]_vars

SpecApi == Init /\ [][NextApi]_vars

SpecDefault == Init /\ [][NextDefault]_vars

SpecCrypto == Init /\ [][NextCrypto]_vars

Spec == Init /\ [][Next]_vars

SpecDet == Init /\ [][NextDet]_vars

\* ------------------------------------------------------------------------
\* Properties of Preferences (SpecPrefs)
\* ------------------------------------------------------------------------

\* The preferences of the client's vault.
prefs == IF IsSome(vault) THEN vault[1].preferences ELSE <<>>

SameKey(p, q) == p.domain = q.domain /\ p.username = q.username

\* The indices of the default Preferences of a domain.
DefaultsOf(items, domain) ==
    {i \in 1..Len(items) : items[i].domain = domain /\ items[i].default}

\* C1: after any sequence of Preferences::add and Preferences::set_default
\* calls on an empty collection, succeeding or failing, every domain has at
\* most one stored Preference with default = true.
C1_AtMostOneDefaultPerDomain ==
    \A d \in Domains : Cardinality(DefaultsOf(prefs, d)) <= 1

\* Two Preferences of one domain are stored, both add and set_default have
\* acted, and the default is the one added second.
C1_Witness ==
    /\ last.op = "set_default" /\ last.res.ok
    /\ \E i, j \in 1..Len(prefs) :
          /\ i < j /\ prefs[i].domain = prefs[j].domain
          /\ prefs[j].default /\ ~prefs[i].default

\* C2: a successful Preferences::add(pref) appends pref with default = true
\* iff no stored Preference of its domain was default before the call,
\* whatever default flag pref carried; the first Preference of a domain is
\* stored as default; the Preferences stored before are unchanged.
C2_AddSetsDefault ==
    (last.op = "add" /\ last.res.ok) =>
        LET before == last.before
            pref   == last.preference[1]
            n      == Len(prefs)
        IN  /\ n = Len(before) + 1
            /\ SubSeq(prefs, 1, n - 1) = before
            /\ prefs[n] = [pref EXCEPT !.default = (DefaultsOf(before, pref.domain) = {})]
            /\ (~\E i \in 1..Len(before) : before[i].domain = pref.domain)
                  => prefs[n].default

\* A Preference passed with default = true was stored as non-default, and a
\* Preference passed with default = false had earlier been stored as default.
C2_Witness ==
    /\ last.op = "add" /\ last.res.ok
    /\ last.preference[1].default /\ ~prefs[Len(prefs)].default
    /\ \E i \in 1..Len(last.before) : last.before[i].default

\* C3: Preferences::add of a Preference whose (domain, username) is already
\* stored returns PreferenceExists and leaves the collection unchanged, also
\* when the new Preference has another length.
C3_DuplicateAddRejected ==
    (last.op = "add"
     /\ \E i \in 1..Len(last.before) : SameKey(last.before[i], last.preference[1]))
        => /\ last.res = Err("PreferenceExists")
           /\ prefs = last.before

\* A duplicate with a different length was rejected.
C3_Witness ==
    /\ last.op = "add" /\ last.res = Err("PreferenceExists")
    /\ \E i \in 1..Len(prefs) :
          /\ SameKey(prefs[i], last.preference[1])
          /\ prefs[i].length # last.preference[1].length

\* C4: a successful Preferences::set_default(domain, username) makes
\* default = (username matches) for every Preference of the domain, so that
\* exactly the matched Preference is the domain's default; it changes no
\* domain, username, length or version, adds and removes nothing, and leaves
\* the default flags of the other domains unchanged.
C4_SetDefaultEffect ==
    (last.op = "set_default" /\ last.res.ok) =>
        LET before == last.before
        IN  /\ Len(prefs) = Len(before)
            /\ \A i \in 1..Len(prefs) :
                  /\ prefs[i].domain = before[i].domain
                  /\ prefs[i].username = before[i].username
                  /\ prefs[i].length = before[i].length
                  /\ prefs[i].version = before[i].version
                  /\ prefs[i].default =
                        IF prefs[i].domain = last.domain
                        THEN prefs[i].username = last.username[1]
                        ELSE before[i].default
            /\ \E i \in 1..Len(prefs) :
                  /\ prefs[i].domain = last.domain
                  /\ prefs[i].username = last.username[1]
                  /\ DefaultsOf(prefs, last.domain) = {i}

\* The default of a domain moved from one Preference to another while
\* another domain kept its default.
C4_Witness ==
    /\ last.op = "set_default" /\ last.res.ok
    /\ \E i, j, k \in 1..Len(prefs) :
          /\ prefs[i].domain = last.domain /\ prefs[j].domain = last.domain
          /\ last.before[i].default /\ ~prefs[i].default
          /\ ~last.before[j].default /\ prefs[j].default
          /\ prefs[k].domain # last.domain /\ prefs[k].default

\* C5: Preferences::set_default(domain, username) with no stored Preference
\* of exactly that pair returns NoMatchingPreferenceFound and leaves every
\* Preference unchanged, also when the domain is stored with other usernames.
C5_SetDefaultNoMatch ==
    (last.op = "set_default"
     /\ ~\E i \in 1..Len(last.before) :
            /\ last.before[i].domain = last.domain
            /\ last.before[i].username = last.username[1])
        => /\ last.res = Err("NoMatchingPreferenceFound")
           /\ prefs = last.before

\* set_default failed for a domain that is stored with another username,
\* whose default is kept.
C5_Witness ==
    /\ last.op = "set_default" /\ last.res = Err("NoMatchingPreferenceFound")
    /\ \E i \in 1..Len(prefs) :
          /\ prefs[i].domain = last.domain
          /\ prefs[i].username # last.username[1]
          /\ prefs[i].default

\* ------------------------------------------------------------------------
\* Properties of Vault::get_password (SpecApi)
\* ------------------------------------------------------------------------

\* The stored Preferences a get_password call resolves to: the one of the
\* given (domain, username), or without a username the default of the domain.
Resolved(items, domain, username) ==
    {i \in 1..Len(items) :
        /\ items[i].domain = domain
        /\ IF IsSome(username) THEN items[i].username = username[1]
                               ELSE items[i].default}

\* C8: Vault::get_password resolves the Preference of the given (domain,
\* username), or without a username the default Preference of the domain.
\* When there is none it returns NoMatchingPreference and the generator is
\* not called, whatever the key; otherwise the generator gets the explicit
\* length and version when given and those of the resolved Preference when
\* not.
C8_PreferenceResolution ==
    (last.op = "get_password") =>
        LET r == Resolved(last.before, last.domain, last.username)
        IN  IF r = {}
            THEN last.res = Err("NoMatchingPreference") /\ last.param = None
            ELSE /\ last.res.err # "NoMatchingPreference"
                 /\ IsSome(last.param)
                 /\ \A i \in r :
                       /\ last.param[1].length =
                             unwrap_or(last.length, last.before[i].length)
                       /\ last.param[1].version =
                             unwrap_or(last.version, last.before[i].version)

\* A call without username and length resolved the default Preference of
\* the domain, which is not the first Preference of that domain and has
\* another length, and passed its length with the explicit version.
C8_Witness ==
    /\ last.op = "get_password" /\ last.res.ok
    /\ last.username = None /\ last.length = None /\ IsSome(last.version)
    /\ \E i, j \in 1..Len(prefs) :
          /\ i < j /\ prefs[i].domain = last.domain /\ prefs[j].domain = last.domain
          /\ prefs[j].default /\ prefs[i].length # prefs[j].length
          /\ last.param[1].length = prefs[j].length
          /\ last.param[1].version = last.version[1]

\* C9: the string a successful Vault::get_password returns has as many
\* characters as the resolved length (the explicit length, else the length
\* of the resolved Preference).
C9_PasswordHasResolvedLength ==
    (last.op = "get_password" /\ last.res.ok) =>
        Len(last.res.val) = last.param[1].length

\* ------------------------------------------------------------------------
\* Properties of the vault collection over sequential runs (Spec)
\* ------------------------------------------------------------------------

\* The vaults in storage.
Stored ==
    {Vault_deserialize(storage.files[f]).val : f \in DOMAIN storage.files}

\* The vault a successful add_vault run created.
Created(o) == o.held[Len(o.held)]

\* C6: over sequential runs, at most one Vault in memory and at most one in
\* storage is default; a default Vault is the one the first successful
\* Vaults::add created, which was made on an empty collection and created
\* default; every Vault added to a non-empty collection is created
\* non-default.
C6_OneDefaultVault ==
    /\ Cardinality({v \in Stored : v.default}) <= 1
    /\ \A p \in Procs :
          Cardinality({i \in 1..Len(mem[p]) : mem[p][i].default}) <= 1
    /\ \A v \in Stored \cup UNION {Items(mem[p]) : p \in Procs} :
          v.default => /\ IsSome(first)
                       /\ v.name = first[1].name
                       /\ v.secret = first[1].secret
    /\ IsSome(first) => first[1].default
    /\ \A p \in Procs :
          (out[p].op = "add_vault" /\ out[p].res.ok) =>
              /\ Created(out[p]).default = (out[p].loaded = <<>>)
              /\ (out[p].loaded = <<>>) => Created(out[p]) = first[1]

\* Two add_vault runs have ended; storage holds the default vault of the
\* first and the non-default vault of the second.
C6_Witness ==
    /\ pc["p1"] = "idle"
    /\ out["p1"].op = "add_vault" /\ out["p1"].res.ok
    /\ out["p1"].loaded # <<>>
    /\ ~Created(out["p1"]).default
    /\ Created(out["p1"]) \in Stored
    /\ first[1] \in Stored
    /\ Cardinality(Stored) = 2

\* C7: Vaults::add with the name of a Vault of the collection returns
\* VaultAlreadyExists and leaves the collection unchanged; when the run has
\* ended, storage holds the vaults that were loaded, the one of that name
\* with its secret, preferences and default flag.
C7_DuplicateVaultRejected ==
    \A p \in Procs :
        (/\ out[p].op = "add_vault" /\ IsSome(out[p].name)
         /\ \E i \in 1..Len(out[p].loaded) :
                out[p].loaded[i].name = out[p].name[1])
        => /\ out[p].res = Err("VaultAlreadyExists")
           /\ out[p].held = out[p].loaded
           /\ pc[p] = "idle" => Stored = Items(out[p].loaded)

\* An add_vault run with the name of the default vault, which has a
\* Preference, was rejected and has ended, beside another vault.
C7_Witness ==
    /\ pc["p1"] = "idle"
    /\ out["p1"].op = "add_vault"
    /\ out["p1"].res = Err("VaultAlreadyExists")
    /\ \E v \in Stored :
          /\ v.name = out["p1"].name[1]
          /\ v.default /\ v.preferences # <<>>

\* ------------------------------------------------------------------------
\* Determinism of get_password over runs (SpecDet)
\* ------------------------------------------------------------------------

SameArguments(c, d) ==
    /\ c.key = d.key /\ c.domain = d.domain
    /\ c.username = d.username /\ c.length = d.length

\* C10: any two Vault::get_password calls of the program, in the same or in
\* different runs, are served by the same vault with the same persisted
\* Secret, and with the same key and arguments they return the same result;
\* the results differ only when a Preference was added in between and one
\* of the calls found no Preference.
C10_Deterministic ==
    \A p \in Procs :
        (IsSome(seen) /\ IsSome(out[p].call) /\ seen[1].run < out[p].call[1].run)
        => LET c == seen[1]
               d == out[p].call[1]
           IN  /\ c.name = d.name /\ c.secret = d.secret
               /\ SameArguments(c, d) =>
                     \/ c.res = d.res
                     \/ /\ c.preferences # d.preferences
                        /\ "NoMatchingPreference" \in {c.res.err, d.res.err}

\* Two calls in different runs with the same key and arguments returned
\* the same password; the vault was stored and loaded in between.
C10_Witness ==
    /\ pc["p1"] = "idle"
    /\ IsSome(seen) /\ IsSome(out["p1"].call)
    /\ seen[1].run < out["p1"].call[1].run
    /\ SameArguments(seen[1], out["p1"].call[1])
    /\ seen[1].res.ok /\ seen[1].res = out["p1"].call[1].res

\* ------------------------------------------------------------------------
\* Serialization and persistence (Spec)
\* ------------------------------------------------------------------------

\* The vaults of a collection that Vault::store leaves in storage when the
\* collection is dropped: those no later vault of the collection shares its
\* file with.
Persisted(held) ==
    {held[i] : i \in {k \in 1..Len(held) :
                        \A j \in (k + 1)..Len(held) :
                            Vault_path(held[j]) # Vault_path(held[k])}}

Added(o) ==
    [Preference_new(o.domain[1], o.username[1], parse_usize(o.length[1]).val)
        EXCEPT !.default = TRUE]

\* C12: in a run that loaded the collection, whether the handler returned
\* Ok or an error, nothing is written before the handler returns, and then
\* every Vault it held is written to its file once, in the order of the
\* collection, and nothing else is written; once the run of a successful
\* Vaults::add or Preferences::add has ended, the load of the next run
\* returns the vault that was added, or the vault with the added Preference.
C12_WrittenOnceAtEnd ==
    \A p \in Procs :
        (out[p].op # "") =>
            /\ out[p].written \o mem[p] = out[p].held
            /\ (pc[p] = "idle") => out[p].written = out[p].held
            /\ (out[p].written = <<>>) => Stored = Items(out[p].loaded)
            /\ (pc[p] = "idle" /\ out[p].res.ok /\ out[p].op = "add_vault") =>
                  \A order \in ReadDirOrders(storage) :
                      /\ Created(out[p]) \notin Items(out[p].loaded)
                      /\ Created(out[p]) \in Items(Vaults_new(storage, order).val)
            /\ (pc[p] = "idle" /\ out[p].res.ok /\ out[p].op = "add_password") =>
                  \A order \in ReadDirOrders(storage) :
                      \E i \in 1..Len(out[p].held) :
                          /\ out[p].held[i].preferences # out[p].loaded[i].preferences
                          /\ \E k \in 1..Len(out[p].held[i].preferences) :
                                SameKey(out[p].held[i].preferences[k], Added(out[p]))
                          /\ out[p].held[i] \in Items(Vaults_new(storage, order).val)

\* A run that loaded two vaults and failed on the length parameter has
\* ended, and both vaults were written.
C12_Witness ==
    /\ pc["p1"] = "idle"
    /\ out["p1"].op = "add_password" /\ out["p1"].res = Err("ConversionError")
    /\ Len(out["p1"].written) = 2
    /\ Items(out["p1"].written) = Stored

\* ------------------------------------------------------------------------
\* Two processes (SpecConc)
\* ------------------------------------------------------------------------

\* When two add_password runs that loaded the same collection have both
\* succeeded and exited, storage holds the collection of one of them, whole:
\* the Preference the other one added is absent.
LastWriterWins ==
    (/\ \A p \in Procs : pc[p] = "idle" /\ out[p].op = "add_password"
                         /\ out[p].res.ok
     /\ out["p1"].loaded = out["p2"].loaded)
        => Stored \in {Items(out[p].held) : p \in Procs}

\* C13: when two processes load the collection, mutate the same vault and
\* persist it with their steps interleaved, no run fails because of the
\* other process, and after both have exited the file holds the state one of
\* them wrote, without the mutation of the other.
C13_NoInterference ==
    /\ \A p \in Procs : out[p].res # Panic
    /\ LastWriterWins

\* ------------------------------------------------------------------------
\* Failures of the storage (SpecIo)
\* ------------------------------------------------------------------------

\* C14: when a file of the storage root does not deserialize as a Vault,
\* the load returns an error value to the handler, which returns it to its
\* caller: the run does not panic and does not go on without the file.
C14_LoadFailureReturned ==
    \A p \in Procs :
        (out[p].op # "" /\ out[p].bad) =>
            /\ ~out[p].res.ok
            /\ out[p].res # Panic

\* C15: when Vault::store fails, the caller gets the failure as an error
\* value of the type of the failure; the run does not panic.
C15_StoreFailureSurfaced ==
    \A p \in Procs :
        (~out[p].store.ok) =>
            /\ out[p].res # Panic
            /\ out[p].res = Err(out[p].store.err)

\* ------------------------------------------------------------------------
\* Properties of safe/crypto.rs (SpecCrypto)
\* ------------------------------------------------------------------------

C17_AsciiRange ==
    /\ (calc.op = "to_ascii_range") =>
          \A i \in 1..Len(calc.v) :
              /\ (calc.v[i] % 92) + 33 < 256
              /\ calc.res[i] = 33 + (calc.v[i] % 92)
              /\ calc.res[i] \in 33..124
    /\ (calc.op = "get" /\ calc.res.ok) =>
          /\ Len(calc.res.val) = Len(calc.digest)
          /\ \A i \in 1..Len(calc.res.val) :
                /\ calc.digest[i] \in Bytes
                /\ calc.res.val[i] = 33 + (calc.digest[i] % 92)
                /\ calc.res.val[i] \in 33..124
                /\ calc.res.val[i] \in 33..126

\* The byte 91 gave the largest code, 124.
C17_Witness ==
    /\ calc.op = "to_ascii_range" /\ calc.v = <<91>> /\ calc.res = <<124>>

\* ------------------------------------------------------------------------
\* What the password depends on (SpecApi)
\* ------------------------------------------------------------------------

SecretOf(items, name) ==
    LET v == List_get(items, [name |-> name])
    IN  IF IsSome(v) THEN Some(v[1].secret) ELSE None

\* C19: the Secret of a Vault never changes after its creation: no step of
\* a run (add password, get password with the right or a wrong key, add
\* vault that fails, the load and the store of every run) changes the
\* Secret, ciphertext and IV, that a file holds for the vault of a name, nor
\* the Secret of a Vault the handler loaded; the same holds for the Vault a
\* client of the library holds.
C19_SecretNeverChanges ==
    [][/\ (IsSome(vault) /\ IsSome(vault')) => vault'[1].secret = vault[1].secret
       /\ \A f \in DOMAIN storage.files :
             /\ f \in DOMAIN storage'.files
             /\ LET old == Vault_deserialize(storage.files[f])
                    new == Vault_deserialize(storage'.files[f])
                IN  (old.ok /\ new.ok /\ old.val.name = new.val.name)
                        => new.val.secret = old.val.secret
       /\ \A p \in Procs :
             (out'[p] # out[p] /\ out'[p].written = <<>>) =>
                 \A i \in 1..Len(out'[p].loaded) :
                     /\ SecretOf(out'[p].held, out'[p].loaded[i].name)
                           = Some(out'[p].loaded[i].secret)
                     /\ \E f \in DOMAIN storage.files :
                           /\ Vault_deserialize(storage.files[f]).ok
                           /\ Vault_deserialize(storage.files[f]).val.name
                                 = out'[p].loaded[i].name
                           /\ Vault_deserialize(storage.files[f]).val.secret
                                 = out'[p].loaded[i].secret
      ]_vars

\* The fourth run, an add vault with the name of the stored vault, was
\* rejected and has ended; the vault has got a Preference since its
\* creation and its Secret in storage is the one it was created with.
C19_Witness ==
    /\ pc["p1"] = "idle"
    /\ out["p1"].op = "add_vault" /\ out["p1"].run = 4
    /\ out["p1"].res = Err("VaultAlreadyExists")
    /\ \E v \in Stored :
          /\ v.name = out["p1"].name[1] /\ v.name = first[1].name
          /\ v.preferences # <<>>
          /\ v.secret = first[1].secret

\* ------------------------------------------------------------------------
\* Identity of a Preference (SpecPrefs)
\* ------------------------------------------------------------------------

\* C20: in every state reached by Preferences::add and
\* Preferences::set_default from the empty collection, no two stored
\* Preferences have the same (domain, username), so that List::get by
\* (domain, username) has at most one Preference to return.
C20_UniqueDomainUsername ==
    /\ \A i, j \in 1..Len(prefs) : SameKey(prefs[i], prefs[j]) => i = j
    /\ \A domain \in Domains, username \in Usernames :
          LET f == [domain |-> domain, username |-> username]
          IN  /\ Cardinality({i \in 1..Len(prefs) : Matches(f, prefs[i])}) <= 1
              /\ IsSome(List_get(prefs, f)) =>
                    {i \in 1..Len(prefs) : Matches(f, prefs[i])}
                        = {position(prefs, f)}

\* Three Preferences are stored, the default of a domain has been moved to
\* the one added later, and an add of a stored pair has just been rejected.
C20_Witness ==
    /\ last.op = "add" /\ last.res = Err("PreferenceExists")
    /\ Len(prefs) = 3
    /\ \E i, j \in 1..Len(prefs) :
          /\ i < j /\ prefs[i].domain = prefs[j].domain
          /\ prefs[j].default
          /\ SameKey(prefs[i], last.preference[1])

\* ------------------------------------------------------------------------
\* One file per vault (Spec)
\* ------------------------------------------------------------------------

\* C21: two Vaults of different names are never written to the same path,
\* names with a '.' included; so when an add vault run that succeeded has
\* ended, storage holds every vault of its collection, the vaults added by
\* the earlier runs and the new one, and none was overwritten by the write
\* of another.
C21_OwnFilePerVault ==
    \A p \in Procs :
        (out[p].op = "add_vault" /\ out[p].res.ok) =>
            /\ \A i, j \in 1..Len(out[p].held) :
                  out[p].held[i].name # out[p].held[j].name
                      => Vault_path(out[p].held[i]) # Vault_path(out[p].held[j])
            /\ (pc[p] = "idle") => Items(out[p].held) \subseteq Stored

\* ------------------------------------------------------------------------
\* The default Preference of a domain (SpecDefault)
\* ------------------------------------------------------------------------

\* The domain has a stored Preference.
HasPreference(items, domain) ==
    \E i \in 1..Len(items) : items[i].domain = domain

\* C22: after any sequence of Preferences::add and Preferences::set_default
\* calls on an empty collection, every domain that has a stored Preference
\* has exactly one default Preference, never none; so Vault::get_password
\* called without a username for such a domain does not return
\* NoMatchingPreference.
C22_ExactlyOneDefaultPerDomain ==
    /\ \A domain \in Domains :
          HasPreference(prefs, domain)
              => Cardinality(DefaultsOf(prefs, domain)) = 1
    /\ (/\ last.op = "get_password"
        /\ last.username = None
        /\ HasPreference(last.before, last.domain))
           => last.res # Err("NoMatchingPreference")

\* get_password without a username has answered for a domain that has two
\* Preferences, the second of them made the default by set_default.
C22_Witness ==
    /\ last.op = "get_password"
    /\ last.username = None
    /\ last.res.ok
    /\ \E i, j \in 1..Len(prefs) :
          /\ i < j
          /\ prefs[i].domain = last.domain /\ prefs[j].domain = last.domain
          /\ ~prefs[i].default /\ prefs[j].default

\* ------------------------------------------------------------------------
\* The default vault over runs (Spec)
\* ------------------------------------------------------------------------

\* C23: over sequential runs, when storage holds a vault after a run,
\* exactly one stored vault is default and it is the vault the first
\* successful add vault run created; so once an add vault run has succeeded,
\* no add password or get password run fails with MissingVault.
C23_DefaultVaultStays ==
    \A p \in Procs :
        /\ (pc[p] = "idle" /\ Stored # {}) =>
              /\ Cardinality({v \in Stored : v.default}) = 1
              /\ \A v \in Stored : v.default => v.name = first[1].name
        /\ (IsSome(first) /\ out[p].op \in {"add_password", "get_password"})
              => out[p].res # Err("MissingVault")

\* ------------------------------------------------------------------------
\* Runs that change nothing (Spec)
\* ------------------------------------------------------------------------

\* The run called get_password and it succeeded or failed with
\* NoMatchingPreference or a decryption error, or it was an add that failed
\* with PreferenceExists or VaultAlreadyExists.
ChangesNothing(o) ==
    \/ /\ o.op = "get_password"
       /\ \/ o.res.ok
          \/ o.res \in {Err("NoMatchingPreference"), Err("FailedToDecrypt")}
    \/ o.op = "add_password" /\ o.res = Err("PreferenceExists")
    \/ o.op = "add_vault" /\ o.res = Err("VaultAlreadyExists")

\* C24: with no other process running, a run that only gets a password
\* (succeeding, or failing with NoMatchingPreference or a decryption error)
\* or whose add fails (PreferenceExists, VaultAlreadyExists) holds at its
\* return the collection it loaded, and at exit it has written every loaded
\* vault to its file with the content it loaded: storage holds the same
\* files, and in them the same vaults with their names, secrets,
\* preferences and default flags, as before the run.
C24_ReadOnlyRunKeepsStorage ==
    \A p \in Procs :
        ChangesNothing(out[p]) =>
            /\ out[p].held = out[p].loaded
            /\ (pc[p] = "idle") =>
                  /\ out[p].written = out[p].loaded
                  /\ Stored = Items(out[p].loaded)
                  /\ Cardinality(DOMAIN storage.files) = Len(out[p].loaded)
                  /\ \A i \in 1..Len(out[p].loaded) :
                        /\ Vault_path(out[p].loaded[i]) \in DOMAIN storage.files
                        /\ storage.files[Vault_path(out[p].loaded[i])]
                              = Vault_serialize(out[p].loaded[i]).val

\* A get password run that loaded two vaults, the default one with a
\* Preference, answered and has ended.
C24_Witness ==
    /\ pc["p1"] = "idle"
    /\ out["p1"].op = "get_password" /\ out["p1"].res.ok
    /\ Len(out["p1"].loaded) = 2
    /\ out["p1"].written = out["p1"].loaded
    /\ \E v \in Stored : v.default /\ v.preferences # <<>>

====
